---- MODULE Spec2Model ----
(***************************************************************************)
(* State-machine model of the user service: the account table, the session *)
(* table, the bearer tokens handed to clients, the reset links mailed out, *)
(* and the HTTP handlers of routers/*.py acting on them through UserDAL.   *)
(*                                                                         *)
(* A handler is a function from the tables and the request to the response *)
(* and the tables it leaves (lower-case, named as in the source), and an    *)
(* action that applies it.  A request that is refused leaves the state as   *)
(* it was; what it answers is the function's value in that state.  The      *)
(* handlers whose check and write are separate SQL statements that another  *)
(* request can fall between (register, reset_password) are two actions,     *)
(* with the request's locals kept in the bag  req  in between.              *)
(*                                                                         *)
(* Columns no property reads are left out of the rows: name, mobile,       *)
(* created_at, updated_at, ip_address, user_agent, login_time.             *)
(***************************************************************************)
EXTENDS Integers, Sequences, FiniteSets, Bags, TLC

VARIABLES users, sessions, tokens, mail, req, now, redeemed

vars == <<users, sessions, tokens, mail, req, now, redeemed>>

(***************************************************************************)
(* Bounds of the model.                                                    *)
(***************************************************************************)
MaxUsers == 3
MaxSessions == 2
MaxResets == 2
MaxTime == 61
MaxMinutes == 2
MaxClock == 1441
MaxInflight == 2
MaxClassChars == 2
MaxFiller == 8

(***************************************************************************)
(* Program constants (minutes).                                            *)
(***************************************************************************)
ACCESS_TOKEN_EXPIRE_MINUTES == 30
RESET_TOKEN_EXPIRE_MINUTES == 60
VERIFICATION_EXPIRE_MINUTES == 1440
RESEND_COOLDOWN_MINUTES == 5

\* A NULL column (DateTime, nullable=True) and a NULL integer column.
NULL == -1
NoUser == 0

Emails == {"a@x.com", "A@x.com", "admin@x.com"}
Passwords == {"Admin789#", "MyPass456@"}
Roles == {"user", "admin"}
Reasons == {"NULL", "test"}

\* str.lower() on the addresses of the model.
Lower(e) == IF e = "A@x.com" THEN "a@x.com" ELSE e

(***************************************************************************)
(* utils/auth.py                                                           *)
(***************************************************************************)
hash_password(p) == [scheme |-> "bcrypt", of |-> p]

verify_password(p, h) == h.scheme = "bcrypt" /\ h.of = p

\* The character classes of validate_password_strength.  A password that is
\* validated is a sequence of characters.  (\d also matches the decimal
\* digits of other scripts; the passwords of the model are ASCII.)
UpperCase == {"A", "B", "C", "D", "E", "F", "G", "H", "I", "J", "K", "L", "M",
              "N", "O", "P", "Q", "R", "S", "T", "U", "V", "W", "X", "Y", "Z"}
LowerCase == {"a", "b", "c", "d", "e", "f", "g", "h", "i", "j", "k", "l", "m",
              "n", "o", "p", "q", "r", "s", "t", "u", "v", "w", "x", "y", "z"}
Digits == {"0", "1", "2", "3", "4", "5", "6", "7", "8", "9"}
SpecialChars == {"!", "@", "#", "$", "%", "^", "&", "*", "(", ")", ",", ".", "?",
                 "\"", ":", "{", "}", "|", "<", ">"}

\* re.search(r"[...]", password)
re_search(class, password) == \E i \in 1..Len(password) : password[i] \in class

\* Fault: validate_password_strength without the test for a number.
validate_password_strength_no_digit(password) ==
    IF Len(password) < 8
    THEN [ok |-> FALSE, message |-> "Password must be at least 8 characters long"]
    ELSE IF ~re_search(UpperCase, password)
    THEN [ok |-> FALSE,
          message |-> "Password must contain at least one uppercase letter"]
    ELSE IF ~re_search(LowerCase, password)
    THEN [ok |-> FALSE,
          message |-> "Password must contain at least one lowercase letter"]
    ELSE IF ~re_search(SpecialChars, password)
    THEN [ok |-> FALSE,
          message |-> "Password must contain at least one special character"]
    ELSE [ok |-> TRUE, message |-> "Password is strong"]

validate_password_strength(password) ==
    IF Len(password) < 8
    THEN [ok |-> FALSE, message |-> "Password must be at least 8 characters long"]
    ELSE IF ~re_search(UpperCase, password)
    THEN [ok |-> FALSE,
          message |-> "Password must contain at least one uppercase letter"]
    ELSE IF ~re_search(LowerCase, password)
    THEN [ok |-> FALSE,
          message |-> "Password must contain at least one lowercase letter"]
    ELSE IF ~re_search(Digits, password)
    THEN [ok |-> FALSE, message |-> "Password must contain at least one number"]
    ELSE IF ~re_search(SpecialChars, password)
    THEN [ok |-> FALSE,
          message |-> "Password must contain at least one special character"]
    ELSE [ok |-> TRUE, message |-> "Password is strong"]

\* jwt.encode of the claims of login (sub, role) with exp and jti added.
create_access_token(uid, role, jti, t) ==
    [sub |-> uid, role |-> role, exp |-> t + ACCESS_TOKEN_EXPIRE_MINUTES,
     jti |-> jti, signed |-> TRUE]

\* Fault: jwt.decode with verify_exp switched off.
verify_token_ignoring_exp(tok, t) == tok.signed

\* jwt.decode: None (FALSE here) on a bad signature or when exp has passed.
verify_token(tok, t) == tok.signed /\ ~(tok.exp < t)

\* A token no login issued: its signature does not verify.
ForgedToken ==
    [sub |-> 1, role |-> "admin", exp |-> MaxTime + 1, jti |-> 0, signed |-> FALSE]

(***************************************************************************)
(* routers/password_reset.py: utilities                                    *)
(***************************************************************************)
hash_token(raw) == [alg |-> "sha256", of |-> raw]

NoToken == [alg |-> "NULL", of |-> 0]

is_token_expired(expires_at, t) == IF expires_at = NULL THEN TRUE ELSE t > expires_at

(***************************************************************************)
(* db/models/user.py                                                       *)
(***************************************************************************)
UserStatus == {"active", "blocked", "suspended", "pending_verification"}

is_active(u) == u.status = "active"

is_blocked(u) == u.status \in {"blocked", "suspended"}

\* A row of table "user" as create_user builds it (column defaults filled in).
NewUser(email, password, role, verified) ==
    [email |-> email, role |-> role, password |-> hash_password(password),
     status |-> "active", is_email_verified |-> verified, last_login |-> NULL,
     blocked_at |-> NULL, blocked_by |-> NoUser, blocked_reason |-> "NULL",
     reset_token |-> NoToken, reset_token_expires |-> NULL,
     email_verification_token |-> NoToken, email_verification_expires |-> NULL,
     verification_sent_at |-> NULL]

\* Fault: the table without the unique constraint on email.
no_unique_constraint(us, email, except) == FALSE

\* email = Column(String, nullable=False, unique=True): the INSERT or UPDATE
\* that would give a second row the same email raises IntegrityError.
unique_violation(us, email, except) ==
    \E i \in 1..Len(us) : i # except /\ us[i].email = email

(***************************************************************************)
(* db/dals/user_dal.py.  A row is named by its id, its place in  users ;   *)
(* NoUser is the None of a query that matched no row.                      *)
(***************************************************************************)
UserDAL_get_user(us, id) == IF id \in 1..Len(us) THEN id ELSE NoUser

UserDAL_get_user_by_email(us, email) ==
    IF \E i \in 1..Len(us) : us[i].email = email
    THEN CHOOSE i \in 1..Len(us) : us[i].email = email
    ELSE NoUser

UserDAL_authenticate_user(us, email, password) ==
    LET uid == UserDAL_get_user_by_email(us, email) IN
    IF uid # NoUser /\ is_active(us[uid]) /\ verify_password(password, us[uid].password)
    THEN uid
    ELSE NoUser

UserDAL_update_last_login(us, uid, t) == [us EXCEPT ![uid].last_login = t]

UserDAL_create_user(us, email, password, role) ==
    Append(us, NewUser(email, password, role, FALSE))

\* is_email_verified=True: "Admin-created users are verified by default".
UserDAL_create_user_with_auth(us, email, password, role) ==
    Append(us, NewUser(email, password, role, TRUE))

\* Fault: block_user that does not record who blocked.
block_user_no_admin_id(us, uid, admin_id, reason, t) ==
    [us EXCEPT ![uid].status = "blocked", ![uid].blocked_at = t,
               ![uid].blocked_reason = reason]

UserDAL_block_user(us, uid, admin_id, reason, t) ==
    [us EXCEPT ![uid].status = "blocked", ![uid].blocked_at = t,
               ![uid].blocked_by = admin_id, ![uid].blocked_reason = reason]

\* Fault: unblock_user that resets the status and keeps the record of the block.
unblock_user_keep_record(us, uid) == [us EXCEPT ![uid].status = "active"]

UserDAL_unblock_user(us, uid) ==
    [us EXCEPT ![uid].status = "active", ![uid].blocked_at = NULL,
               ![uid].blocked_by = NoUser, ![uid].blocked_reason = "NULL"]

UserDAL_suspend_user(us, uid, admin_id, reason, t) ==
    [us EXCEPT ![uid].status = "suspended", ![uid].blocked_at = t,
               ![uid].blocked_by = admin_id, ![uid].blocked_reason = reason]

\* UPDATE ... WHERE id = user_id with the values that were supplied ("NULL":
\* the argument was left out); no row matches an unknown id.
UserDAL_update_user(us, uid, email, role) ==
    [i \in 1..Len(us) |->
        IF i # uid THEN us[i]
        ELSE [us[i] EXCEPT !.email = IF email # "NULL" THEN email ELSE @,
                           !.role = IF role # "NULL" THEN role ELSE @]]

\* Fault: set_password_reset_token that keeps a token the row already has.
set_reset_token_if_absent(us, uid, hashed, expires_at) ==
    IF us[uid].reset_token # NoToken THEN us
    ELSE [us EXCEPT ![uid].reset_token = hashed, ![uid].reset_token_expires = expires_at]

UserDAL_set_password_reset_token(us, uid, hashed, expires_at) ==
    [us EXCEPT ![uid].reset_token = hashed, ![uid].reset_token_expires = expires_at]

UserDAL_get_user_by_reset_token(us, hashed) ==
    IF \E i \in 1..Len(us) : us[i].reset_token = hashed
    THEN CHOOSE i \in 1..Len(us) : us[i].reset_token = hashed
    ELSE NoUser

\* Fault: clear_password_reset_token that leaves the expiry in place.
clear_reset_token_keep_expiry(us, uid) ==
    [us EXCEPT ![uid].reset_token = NoToken]

UserDAL_clear_password_reset_token(us, uid) ==
    [us EXCEPT ![uid].reset_token = NoToken, ![uid].reset_token_expires = NULL]

\* Fault: the password UPDATE that leaves the reset columns as they were.
update_password_keep_token(us, uid, new_password) ==
    [us EXCEPT ![uid].password = hash_password(new_password)]

\* Fault: the password UPDATE that also marks the email verified.
update_password_and_verify(us, uid, new_password) ==
    [us EXCEPT ![uid].password = hash_password(new_password),
               ![uid].reset_token = NoToken, ![uid].reset_token_expires = NULL,
               ![uid].is_email_verified = TRUE]

UserDAL_update_password_with_reset(us, uid, new_password) ==
    [us EXCEPT ![uid].password = hash_password(new_password),
               ![uid].reset_token = NoToken, ![uid].reset_token_expires = NULL]

UserDAL_set_email_verification_token(us, uid, hashed, expires_at, t) ==
    [us EXCEPT ![uid].email_verification_token = hashed,
               ![uid].email_verification_expires = expires_at,
               ![uid].verification_sent_at = t]

UserDAL_get_user_by_verification_token(us, hashed) ==
    IF \E i \in 1..Len(us) : us[i].email_verification_token = hashed
    THEN CHOOSE i \in 1..Len(us) : us[i].email_verification_token = hashed
    ELSE NoUser

\* Fault: verify_user_email that leaves the token columns as they were.
verify_user_email_keep_token(us, uid) == [us EXCEPT ![uid].is_email_verified = TRUE]

UserDAL_verify_user_email(us, uid) ==
    [us EXCEPT ![uid].is_email_verified = TRUE,
               ![uid].email_verification_token = NoToken,
               ![uid].email_verification_expires = NULL]

\* Fault: clear_email_verification_token that writes nothing.
clear_email_verification_token_noop(us, uid) == us

UserDAL_clear_email_verification_token(us, uid) ==
    [us EXCEPT ![uid].email_verification_token = NoToken,
               ![uid].email_verification_expires = NULL]

\* total_seconds() of the time since the last send against the cooldown.
UserDAL_can_resend_verification(us, uid, cooldown_minutes, t) ==
    IF UserDAL_get_user(us, uid) = NoUser THEN TRUE
    ELSE IF us[uid].verification_sent_at = NULL THEN TRUE
    ELSE (t - us[uid].verification_sent_at) * 60 > cooldown_minutes * 60

\* Fault: create_session that stores the user id in the token_id column.
create_session_wrong_token_id(ss, uid, jti) ==
    Append(ss, [user_id |-> uid, token_id |-> uid, logout_time |-> NULL,
                is_active |-> TRUE])

UserDAL_create_session(ss, uid, jti) ==
    Append(ss, [user_id |-> uid, token_id |-> jti, logout_time |-> NULL,
                is_active |-> TRUE])

\* Fault: end_session that stamps logout_time and leaves is_active alone.
end_session_keep_active(ss, jti, t) ==
    [i \in 1..Len(ss) |->
        IF ss[i].token_id = jti
        THEN [ss[i] EXCEPT !.logout_time = t]
        ELSE ss[i]]

UserDAL_end_session(ss, jti, t) ==
    [i \in 1..Len(ss) |->
        IF ss[i].token_id = jti
        THEN [ss[i] EXCEPT !.logout_time = t, !.is_active = FALSE]
        ELSE ss[i]]

\* Fault: get_active_sessions without the user_id condition.
get_active_sessions_any_user(ss, uid) ==
    {i \in 1..Len(ss) : ss[i].is_active}

UserDAL_get_active_sessions(ss, uid) ==
    {i \in 1..Len(ss) : ss[i].user_id = uid /\ ss[i].is_active}

(***************************************************************************)
(* The state after setup_database.create_test_users, cut to its admin.     *)
(***************************************************************************)
Init ==
    /\ users = <<NewUser("admin@x.com", "Admin789#", "admin", TRUE)>>
    /\ sessions = <<>>
    /\ tokens = <<>>
    /\ mail = <<>>
    /\ req = EmptyBag
    /\ now = 0
    /\ redeemed = [r \in 1..MaxResets |-> 0]

\* The token a client presents: the k-th that login issued, or (0) a forged one.
Presented(toks, k) == IF k = 0 THEN ForgedToken ELSE toks[k]

(***************************************************************************)
(* routers/auth_router.py.  An action is a request that is served: one     *)
(* that is refused changes no table, and its answer is the value of the    *)
(* handler's function in the state it met.                                 *)
(***************************************************************************)
\* f"Account is {user.status}. Contact administrator." of get_current_user
AccountIsMsg(status) ==
    CASE status = "blocked" -> "Account is blocked. Contact administrator."
      [] status = "suspended" -> "Account is suspended. Contact administrator."
      [] OTHER -> "Account is pending_verification. Contact administrator."

\* f"Account is {user.status}. Contact administrator for assistance." of login
LoginAccountIsMsg(status) ==
    CASE status = "blocked" -> "Account is blocked. Contact administrator for assistance."
      [] status = "suspended" ->
            "Account is suspended. Contact administrator for assistance."
      [] OTHER -> "Account is pending_verification. Contact administrator for assistance."

\* Fault: login that verifies the password and never reads the status.
login_any_status(us, ss, toks, t, e, p) ==
    LET uid == UserDAL_get_user_by_email(us, Lower(e))
        jti == Len(ss) + 1
    IN
    IF uid = NoUser \/ ~verify_password(p, us[IF uid = NoUser THEN 1 ELSE uid].password)
    THEN [code |-> 401, detail |-> "Incorrect email or password",
          users |-> us, sessions |-> ss, tokens |-> toks]
    ELSE [code |-> 200, detail |-> "bearer",
          users |-> UserDAL_update_last_login(us, uid, t),
          sessions |-> UserDAL_create_session(ss, uid, jti),
          tokens |-> Append(toks, create_access_token(uid, us[uid].role, jti, t))]

\* POST /auth/login.  The jti is secrets.token_urlsafe(32), a value no earlier
\* login drew: here the number of the session row.
\* Fault: login that stamps last_login of the account it found before it
\* looks at the password and the status.
login_stamp_on_failure(us, ss, toks, t, e, p) ==
    LET email == Lower(e)
        found == UserDAL_get_user_by_email(us, email)
        uid == UserDAL_authenticate_user(us, email, p)
        jti == Len(ss) + 1
        stamped == IF found = NoUser THEN us ELSE UserDAL_update_last_login(us, found, t)
    IN
    IF uid = NoUser
    THEN [code |-> 401, detail |-> "Incorrect email or password",
          users |-> stamped, sessions |-> ss, tokens |-> toks]
    ELSE [code |-> 200, detail |-> "bearer",
          users |-> stamped,
          sessions |-> UserDAL_create_session(ss, uid, jti),
          tokens |-> Append(toks, create_access_token(uid, us[uid].role, jti, t))]

login(us, ss, toks, t, e, p) ==
    LET email == Lower(e)
        uid == UserDAL_authenticate_user(us, email, p)
        jti == Len(ss) + 1
    IN
    IF uid = NoUser
    THEN [code |-> 401, detail |-> "Incorrect email or password",
          users |-> us, sessions |-> ss, tokens |-> toks]
    ELSE IF is_blocked(us[uid])
    THEN [code |-> 403, detail |-> LoginAccountIsMsg(us[uid].status),
          users |-> us, sessions |-> ss, tokens |-> toks]
    ELSE [code |-> 200, detail |-> "bearer",
          users |-> UserDAL_update_last_login(us, uid, t),
          sessions |-> UserDAL_create_session(ss, uid, jti),
          tokens |-> Append(toks, create_access_token(uid, us[uid].role, jti, t))]

\* Fault: get_current_user without the is_blocked test.
get_current_user_no_status(us, tok, t) ==
    IF ~verify_token(tok, t)
    THEN [code |-> 401, detail |-> "Invalid authentication credentials", uid |-> NoUser]
    ELSE IF UserDAL_get_user(us, tok.sub) = NoUser
    THEN [code |-> 401, detail |-> "User not found", uid |-> NoUser]
    ELSE [code |-> 200, detail |-> "ok", uid |-> tok.sub]

get_current_user(us, tok, t) ==
    IF ~verify_token(tok, t)
    THEN [code |-> 401, detail |-> "Invalid authentication credentials", uid |-> NoUser]
    ELSE IF UserDAL_get_user(us, tok.sub) = NoUser
    THEN [code |-> 401, detail |-> "User not found", uid |-> NoUser]
    ELSE IF is_blocked(us[tok.sub])
    THEN [code |-> 403, detail |-> AccountIsMsg(us[tok.sub].status), uid |-> NoUser]
    ELSE [code |-> 200, detail |-> "ok", uid |-> tok.sub]

\* Fault: require_admin that reads the role from the token's claims.
require_admin_by_claim(us, tok, t) ==
    LET cu == get_current_user(us, tok, t) IN
    IF cu.code # 200 THEN cu
    ELSE IF tok.role # "admin"
    THEN [code |-> 403, detail |-> "Admin access required", uid |-> NoUser]
    ELSE IF ~is_active(us[cu.uid])
    THEN [code |-> 403, detail |-> "Admin account is not active", uid |-> NoUser]
    ELSE cu

require_admin(us, tok, t) ==
    LET cu == get_current_user(us, tok, t) IN
    IF cu.code # 200 THEN cu
    ELSE IF us[cu.uid].role # "admin"
    THEN [code |-> 403, detail |-> "Admin access required", uid |-> NoUser]
    ELSE IF ~is_active(us[cu.uid])
    THEN [code |-> 403, detail |-> "Admin account is not active", uid |-> NoUser]
    ELSE cu

\* POST /auth/logout
logout(us, ss, tok, t) ==
    LET cu == get_current_user(us, tok, t) IN
    IF cu.code # 200
    THEN [code |-> cu.code, detail |-> cu.detail, sessions |-> ss]
    ELSE [code |-> 200, detail |-> "Successfully logged out",
          sessions |-> UserDAL_end_session(ss, tok.jti, t)]

\* POST /auth/register, lines 108-118: the existence check.
register_check(us, e) ==
    IF UserDAL_get_user_by_email(us, Lower(e)) # NoUser
    THEN [code |-> 400, detail |-> "Email already registered"]
    ELSE [code |-> 200, detail |-> "no such email"]

\* POST /auth/register, lines 120-132: the INSERT and the commit.  r is what
\* the request holds after the check: the validated email and the password.
register_insert(us, r) ==
    IF unique_violation(us, r.email, NoUser)
    THEN [code |-> 500, detail |-> "Internal Server Error", users |-> us]
    ELSE [code |-> 201, detail |-> "created",
          users |-> UserDAL_create_user(us, r.email, r.password, "user")]

\* UserRegister.validate_password_field: a ValueError of the validator is
\* answered 422 before the handler runs.
validate_password_field(v) ==
    LET c == validate_password_strength(v) IN
    [code |-> IF c.ok THEN 200 ELSE 422, detail |-> c.message]

\* POST /auth/register served with no other request in between, the
\* validator of the password included.
register(us, e, pw) ==
    LET v == validate_password_field(pw)
        c == register_check(us, e)
    IN
    IF v.code # 200 THEN [code |-> v.code, detail |-> v.detail, users |-> us]
    ELSE IF c.code # 200 THEN [code |-> c.code, detail |-> c.detail, users |-> us]
    ELSE register_insert(us, [op |-> "register", email |-> Lower(e), password |-> pw])

\* Rows that exist or that a request in flight is about to insert.
Pending ==
    LET regs == {r \in BagToSet(req) : r.op = "register"} IN
    Len(users) + BagCardinality([r \in regs |-> CopiesIn(r, req)])

Login(e, p) ==
    LET r == login(users, sessions, tokens, now, e, p) IN
    /\ r.code = 200
    /\ Len(sessions) < MaxSessions
    /\ users' = r.users
    /\ sessions' = r.sessions
    /\ tokens' = r.tokens
    /\ UNCHANGED <<mail, req, now, redeemed>>

\* GET /auth/me reads and writes nothing.
Me(k) ==
    /\ get_current_user(users, Presented(tokens, k), now).code = 200
    /\ UNCHANGED vars

Logout(k) ==
    LET r == logout(users, sessions, Presented(tokens, k), now) IN
    /\ r.code = 200
    /\ sessions' = r.sessions
    /\ UNCHANGED <<users, tokens, mail, req, now, redeemed>>

\* The existence check and the INSERT of register are two statements:
\* RegisterCheck is the first, RegisterInsert the second.
RegisterCheck(e, p) ==
    /\ register_check(users, e).code = 200
    /\ BagCardinality(req) < MaxInflight
    /\ Pending < MaxUsers
    /\ req' = req (+) SetToBag({[op |-> "register", email |-> Lower(e),
                                 password |-> p]})
    /\ UNCHANGED <<users, sessions, tokens, mail, now, redeemed>>

\* A refused INSERT (IntegrityError) ends the request all the same.
RegisterInsert(r) ==
    /\ r.op = "register"
    /\ users' = register_insert(users, r).users
    /\ req' = req (-) SetToBag({r})
    /\ UNCHANGED <<sessions, tokens, mail, now, redeemed>>

(***************************************************************************)
(* routers/user_router.py: POST /users and PUT /users/{user_id}.  Neither  *)
(* asks for a token; neither lower-cases the email.                        *)
(***************************************************************************)
\* user_dal.create_user(name, email, mobile, role): the fourth positional
\* parameter of UserDAL.create_user is password, so the row's password is the
\* hash of the role string and its role is the default, "user".
create_user(us, e, role) ==
    IF unique_violation(us, e, NoUser)
    THEN [code |-> 500, detail |-> "Error creating user", users |-> us]
    ELSE [code |-> 200, detail |-> "created",
          users |-> UserDAL_create_user(us, e, role, "user")]

update_user(us, id, e, role) ==
    IF e # "NULL" /\ UserDAL_get_user(us, id) # NoUser /\ unique_violation(us, e, id)
    THEN [code |-> 500, detail |-> "Error updating user", users |-> us]
    ELSE [code |-> 200, detail |-> "updated",
          users |-> UserDAL_update_user(us, id, e, role)]

UsersCreate(e, role) ==
    LET r == create_user(users, e, role) IN
    /\ r.code = 200
    /\ Pending < MaxUsers
    /\ users' = r.users
    /\ UNCHANGED <<sessions, tokens, mail, req, now, redeemed>>

UsersUpdate(id, e, role) ==
    LET r == update_user(users, id, e, role) IN
    /\ r.code = 200
    /\ users' = r.users
    /\ UNCHANGED <<sessions, tokens, mail, req, now, redeemed>>

(***************************************************************************)
(* routers/admin_router.py.  Every handler depends on require_admin.       *)
(***************************************************************************)
\* Fault: block_user without the check of the target's role.
block_user_no_role_guard(us, tok, t, target, reason) ==
    LET ra == require_admin(us, tok, t) IN
    IF ra.code # 200
    THEN [code |-> ra.code, detail |-> ra.detail, users |-> us]
    ELSE IF UserDAL_get_user(us, target) = NoUser
    THEN [code |-> 404, detail |-> "User not found", users |-> us]
    ELSE IF target = ra.uid
    THEN [code |-> 400, detail |-> "Cannot block yourself", users |-> us]
    ELSE [code |-> 200, detail |-> "blocked",
          users |-> UserDAL_block_user(us, target, ra.uid, reason, t)]

block_user(us, tok, t, target, reason) ==
    LET ra == require_admin(us, tok, t) IN
    IF ra.code # 200
    THEN [code |-> ra.code, detail |-> ra.detail, users |-> us]
    ELSE IF UserDAL_get_user(us, target) = NoUser
    THEN [code |-> 404, detail |-> "User not found", users |-> us]
    ELSE IF target = ra.uid
    THEN [code |-> 400, detail |-> "Cannot block yourself", users |-> us]
    ELSE IF us[target].role = "admin"
    THEN [code |-> 400, detail |-> "Cannot block other administrators", users |-> us]
    ELSE [code |-> 200, detail |-> "blocked",
          users |-> UserDAL_block_user(us, target, ra.uid, reason, t)]

unblock_user(us, tok, t, target) ==
    LET ra == require_admin(us, tok, t) IN
    IF ra.code # 200
    THEN [code |-> ra.code, detail |-> ra.detail, users |-> us]
    ELSE IF UserDAL_get_user(us, target) = NoUser
    THEN [code |-> 404, detail |-> "User not found", users |-> us]
    ELSE [code |-> 200, detail |-> "unblocked",
          users |-> UserDAL_unblock_user(us, target)]

\* Fault: suspend_user without the check that the target is the caller.
suspend_user_no_self_guard(us, tok, t, target, reason) ==
    LET ra == require_admin(us, tok, t) IN
    IF ra.code # 200
    THEN [code |-> ra.code, detail |-> ra.detail, users |-> us]
    ELSE IF UserDAL_get_user(us, target) = NoUser
    THEN [code |-> 404, detail |-> "User not found", users |-> us]
    ELSE [code |-> 200, detail |-> "suspended",
          users |-> UserDAL_suspend_user(us, target, ra.uid, reason, t)]

suspend_user(us, tok, t, target, reason) ==
    LET ra == require_admin(us, tok, t) IN
    IF ra.code # 200
    THEN [code |-> ra.code, detail |-> ra.detail, users |-> us]
    ELSE IF UserDAL_get_user(us, target) = NoUser
    THEN [code |-> 404, detail |-> "User not found", users |-> us]
    ELSE IF target = ra.uid
    THEN [code |-> 400, detail |-> "Cannot suspend yourself", users |-> us]
    ELSE [code |-> 200, detail |-> "suspended",
          users |-> UserDAL_suspend_user(us, target, ra.uid, reason, t)]

change_user_role(us, tok, t, target, new_role) ==
    LET ra == require_admin(us, tok, t) IN
    IF ra.code # 200
    THEN [code |-> ra.code, detail |-> ra.detail, users |-> us]
    ELSE IF new_role \notin {"user", "admin"}
    THEN [code |-> 400, detail |-> "Role must be 'user' or 'admin'", users |-> us]
    ELSE IF UserDAL_get_user(us, target) = NoUser
    THEN [code |-> 404, detail |-> "User not found", users |-> us]
    ELSE [code |-> 200, detail |-> "role changed",
          users |-> UserDAL_update_user(us, target, "NULL", new_role)]

\* AdminCreateUserRequest lower-cases the email; the session of get_user_dal
\* commits the INSERT.
admin_create_user(us, tok, t, e, p, role) ==
    LET ra == require_admin(us, tok, t)
        email == Lower(e)
    IN
    IF ra.code # 200
    THEN [code |-> ra.code, detail |-> ra.detail, users |-> us]
    ELSE IF UserDAL_get_user_by_email(us, email) # NoUser
    THEN [code |-> 400, detail |-> "User with email already exists", users |-> us]
    ELSE [code |-> 200, detail |-> "created",
          users |-> UserDAL_create_user_with_auth(us, email, p, role)]

RECURSIVE end_sessions(_, _, _)
\* for session_obj in sessions: await user_dal.end_session(session_obj.token_id)
end_sessions(ss, idx, t) ==
    IF idx = {} THEN ss
    ELSE LET i == CHOOSE j \in idx : TRUE IN
         end_sessions(UserDAL_end_session(ss, ss[i].token_id, t), idx \ {i}, t)

logout_all_user_sessions(us, ss, tok, t, target) ==
    LET ra == require_admin(us, tok, t)
        active == UserDAL_get_active_sessions(ss, target)
    IN
    IF ra.code # 200
    THEN [code |-> ra.code, detail |-> ra.detail, sessions |-> ss, sessions_ended |-> 0]
    ELSE IF UserDAL_get_user(us, target) = NoUser
    THEN [code |-> 404, detail |-> "User not found", sessions |-> ss,
          sessions_ended |-> 0]
    ELSE [code |-> 200, detail |-> "terminated",
          sessions |-> end_sessions(ss, active, t),
          sessions_ended |-> Cardinality(active)]

BlockUser(k, target, reason) ==
    LET r == block_user(users, Presented(tokens, k), now, target, reason) IN
    /\ r.code = 200
    /\ users' = r.users
    /\ UNCHANGED <<sessions, tokens, mail, req, now, redeemed>>

\* POST /admin/users/{id}/block, lines 129-149: the SELECT of the target and
\* the guards on what it returned.
block_check(us, tok, t, target) ==
    LET ra == require_admin(us, tok, t)
        r == block_user(us, tok, t, target, "NULL")
    IN
    [code |-> r.code, detail |-> r.detail, admin_id |-> ra.uid]

\* POST /admin/users/{id}/block, lines 151-157: the UPDATE by id and the
\* commit.  r holds the target, the caller and the reason.
block_write(us, t, r) ==
    [code |-> 200, detail |-> "blocked",
     users |-> UserDAL_block_user(us, r.target, r.admin_id, r.reason, t)]

\* The SELECT and the UPDATE of block_user are two statements of a
\* transaction that takes no lock: BlockCheck is the first, BlockWrite the
\* second.
BlockCheck(k, target, reason) ==
    LET c == block_check(users, Presented(tokens, k), now, target) IN
    /\ c.code = 200
    /\ BagCardinality(req) < MaxInflight
    /\ req' = req (+) SetToBag({[op |-> "block", target |-> target,
                                 admin_id |-> c.admin_id, reason |-> reason]})
    /\ UNCHANGED <<users, sessions, tokens, mail, now, redeemed>>

BlockWrite(r) ==
    /\ r.op = "block"
    /\ users' = block_write(users, now, r).users
    /\ req' = req (-) SetToBag({r})
    /\ UNCHANGED <<sessions, tokens, mail, now, redeemed>>

UnblockUser(k, target) ==
    LET r == unblock_user(users, Presented(tokens, k), now, target) IN
    /\ r.code = 200
    /\ users' = r.users
    /\ UNCHANGED <<sessions, tokens, mail, req, now, redeemed>>

SuspendUser(k, target, reason) ==
    LET r == suspend_user(users, Presented(tokens, k), now, target, reason) IN
    /\ r.code = 200
    /\ users' = r.users
    /\ UNCHANGED <<sessions, tokens, mail, req, now, redeemed>>

ChangeUserRole(k, target, new_role) ==
    LET r == change_user_role(users, Presented(tokens, k), now, target, new_role) IN
    /\ r.code = 200
    /\ users' = r.users
    /\ UNCHANGED <<sessions, tokens, mail, req, now, redeemed>>

AdminCreateUser(k, e, p, role) ==
    LET r == admin_create_user(users, Presented(tokens, k), now, e, p, role) IN
    /\ r.code = 200
    /\ Pending < MaxUsers
    /\ users' = r.users
    /\ UNCHANGED <<sessions, tokens, mail, req, now, redeemed>>

LogoutAllUserSessions(k, target) ==
    LET r == logout_all_user_sessions(users, sessions, Presented(tokens, k), now, target)
    IN
    /\ r.code = 200
    /\ sessions' = r.sessions
    /\ UNCHANGED <<users, tokens, mail, req, now, redeemed>>

(***************************************************************************)
(* routers/password_reset.py                                               *)
(***************************************************************************)
\* Fault: forgot_password that tells an unverified address so.
forgot_password_verified_only(us, t, e, raw) ==
    LET email == Lower(e)
        uid == UserDAL_get_user_by_email(us, email)
    IN
    IF uid = NoUser
    THEN [code |-> 200, success |-> TRUE,
          detail |-> "If the email exists, a reset link has been sent.",
          users |-> us, sent |-> <<>>]
    ELSE IF us[uid].status # "active"
    THEN [code |-> 200, success |-> FALSE,
          detail |-> "Account is not active. Please contact support.",
          users |-> us, sent |-> <<>>]
    ELSE IF ~us[uid].is_email_verified
    THEN [code |-> 200, success |-> FALSE,
          detail |-> "Email is not verified.",
          users |-> us, sent |-> <<>>]
    ELSE [code |-> 200, success |-> TRUE,
          detail |-> "If the email exists, a reset link has been sent.",
          users |-> UserDAL_set_password_reset_token(us, uid, hash_token(raw),
                        t + RESET_TOKEN_EXPIRE_MINUTES),
          sent |-> <<[to |-> us[uid].email, token |-> raw, kind |-> "reset"]>>]

\* POST /auth/forgot-password.  raw is generate_reset_token(): the value of
\* secrets.token_urlsafe(32), which no earlier call returned.  sent: the link
\* that send_reset_email delivers, or <<>>.
forgot_password(us, t, e, raw) ==
    LET email == Lower(e)
        uid == UserDAL_get_user_by_email(us, email)
    IN
    IF uid = NoUser
    THEN [code |-> 200, success |-> TRUE,
          detail |-> "If the email exists, a reset link has been sent.",
          users |-> us, sent |-> <<>>]
    ELSE IF us[uid].status # "active"
    THEN [code |-> 200, success |-> FALSE,
          detail |-> "Account is not active. Please contact support.",
          users |-> us, sent |-> <<>>]
    ELSE [code |-> 200, success |-> TRUE,
          detail |-> "If the email exists, a reset link has been sent.",
          users |-> UserDAL_set_password_reset_token(us, uid, hash_token(raw),
                        t + RESET_TOKEN_EXPIRE_MINUTES),
          sent |-> <<[to |-> us[uid].email, token |-> raw, kind |-> "reset"]>>]

\* POST /auth/reset-password, lines 118-127: hash the token, look the row up.
reset_lookup(us, raw) ==
    LET uid == UserDAL_get_user_by_reset_token(us, hash_token(raw)) IN
    IF uid = NoUser
    THEN [code |-> 400, detail |-> "Invalid or expired reset token", uid |-> NoUser]
    ELSE [code |-> 200, detail |-> "found", uid |-> uid]

\* POST /auth/reset-password, lines 129-144, on the row the lookup read:
\* r holds its id, its reset_token_expires as read, and the new password.
reset_apply(us, t, r) ==
    IF is_token_expired(r.reset_token_expires, t)
    THEN [code |-> 400, detail |-> "Reset token has expired. Please request a new one.",
          users |-> UserDAL_clear_password_reset_token(us, r.uid)]
    ELSE [code |-> 200, detail |-> "Password has been reset successfully.",
          users |-> UserDAL_update_password_with_reset(us, r.uid, r.new_password)]

\* POST /auth/reset-password served with no other request in between.
reset_password(us, t, raw, p) ==
    LET f == reset_lookup(us, raw) IN
    IF f.code # 200
    THEN [code |-> f.code, detail |-> f.detail, users |-> us]
    ELSE reset_apply(us, t, [op |-> "reset_password", token |-> raw, uid |-> f.uid,
                             new_password |-> p,
                             reset_token_expires |-> us[f.uid].reset_token_expires])

ForgotPassword(e) ==
    LET r == forgot_password(users, now, e, Len(mail) + 1) IN
    /\ r.sent # <<>>
    /\ Len(mail) < MaxResets
    /\ users' = r.users
    /\ mail' = mail \o r.sent
    /\ UNCHANGED <<sessions, tokens, req, now, redeemed>>

\* raw: a token some link carried, or (0) one that was never issued.
ResetLookup(raw, p) ==
    LET f == reset_lookup(users, raw) IN
    /\ f.code = 200
    /\ BagCardinality(req) < MaxInflight
    /\ req' = req (+) SetToBag({[op |-> "reset_password", token |-> raw,
                uid |-> f.uid, new_password |-> p,
                reset_token_expires |-> users[f.uid].reset_token_expires]})
    /\ UNCHANGED <<users, sessions, tokens, mail, now, redeemed>>

\* redeemed counts the redemptions of each raw token that answered success.
ResetApply(r) ==
    LET a == reset_apply(users, now, r) IN
    /\ r.op = "reset_password"
    /\ users' = a.users
    /\ redeemed' = IF a.code = 200 THEN [redeemed EXCEPT ![r.token] = @ + 1]
                   ELSE redeemed
    /\ req' = req (-) SetToBag({r})
    /\ UNCHANGED <<sessions, tokens, mail, now>>

\* POST /auth/reset-password, lines 111-116: the strength check of
\* new_password, before the token is looked at.  r is the request as it
\* arrives; what stays is the answer (400 with the message, or go on).
reset_validate(r) ==
    LET v == validate_password_strength(r.new_password) IN
    [op |-> "validated", new_password |-> r.new_password,
     code |-> IF v.ok THEN 200 ELSE 400, detail |-> v.message]

ResetValidate(r) ==
    /\ r.op = "arrived"
    /\ req' = (req (-) SetToBag({r})) (+) SetToBag({reset_validate(r)})
    /\ UNCHANGED <<users, sessions, tokens, mail, now, redeemed>>

\* Fault: reset_password without the strength check.
reset_password_unchecked(us, t, raw, pw) == reset_password(us, t, raw, pw)

\* POST /auth/reset-password, lines 110-144, served with no other request in
\* between: the strength check, then the lookup and the update.
reset_password_checked(us, t, raw, pw) ==
    LET v == reset_validate([op |-> "arrived", new_password |-> pw]) IN
    IF v.code # 200 THEN [code |-> v.code, detail |-> v.detail, users |-> us]
    ELSE reset_password(us, t, raw, pw)

\* A request whose new password passed the strength check redeems a token.
ResetRedeem(r, raw) ==
    LET a == reset_password_checked(users, now, raw, r.new_password) IN
    /\ r.op = "validated"
    /\ r.code = 200
    /\ raw \in 1..Len(mail)
    /\ a.code = 200
    /\ users' = a.users
    /\ redeemed' = [redeemed EXCEPT ![raw] = @ + 1]
    /\ req' = req (-) SetToBag({r})
    /\ UNCHANGED <<sessions, tokens, mail, now>>

\* A register request with the password that arrived.
RegisterArrived(r, e) ==
    LET g == register(users, e, r.new_password) IN
    /\ r.op = "arrived"
    /\ g.code = 201
    /\ Len(users) < MaxUsers
    /\ users' = g.users
    /\ req' = req (-) SetToBag({r})
    /\ UNCHANGED <<sessions, tokens, mail, now, redeemed>>

(***************************************************************************)
(* routers/email_verification.py.  Each handler reads the row in one       *)
(* session and writes it in a later one, so each is two actions; the raw   *)
(* token is generate_verification_token(), a value no earlier call drew.   *)
(***************************************************************************)
\* POST /auth/resend-verification, lines 152-181: the lookup by email, the
\* verified check and the cooldown check.
resend_check(us, t, e) ==
    LET email == Lower(e)
        uid == UserDAL_get_user_by_email(us, email)
    IN
    IF uid = NoUser
    THEN [code |-> 200, success |-> TRUE, is_verified |-> "NULL", uid |-> NoUser,
          detail |->
            "If the email exists and is unverified, a verification link has been sent."]
    ELSE IF us[uid].is_email_verified
    THEN [code |-> 200, success |-> TRUE, is_verified |-> "true", uid |-> NoUser,
          detail |-> "Email is already verified."]
    ELSE IF ~UserDAL_can_resend_verification(us, uid, RESEND_COOLDOWN_MINUTES, t)
    THEN [code |-> 429, success |-> FALSE, is_verified |-> "NULL", uid |-> NoUser,
          detail |->
            "Please wait 5 minutes before requesting another verification email."]
    ELSE [code |-> 200, success |-> TRUE, is_verified |-> "NULL", uid |-> uid,
          detail |-> "may resend"]

\* POST /auth/resend-verification, lines 183-207, for the row the check read:
\* r holds its id and its email.
resend_write(us, t, r, raw) ==
    [code |-> 200, success |-> TRUE, is_verified |-> "false",
     detail |-> "Verification email sent successfully. Please check your inbox.",
     users |-> UserDAL_set_email_verification_token(us, r.uid, hash_token(raw),
                    t + VERIFICATION_EXPIRE_MINUTES, t),
     sent |-> <<[to |-> r.email, token |-> raw, kind |-> "verify"]>>]

\* POST /auth/resend-verification served with no other request in between.
resend_verification(us, t, e, raw) ==
    LET c == resend_check(us, t, e) IN
    IF c.uid = NoUser
    THEN [code |-> c.code, success |-> c.success, is_verified |-> c.is_verified,
          detail |-> c.detail, users |-> us, sent |-> <<>>]
    ELSE resend_write(us, t, [op |-> "resend", uid |-> c.uid,
                              email |-> us[c.uid].email], raw)

\* POST /auth/verify-email, lines 88-99: hash the token, look the row up.
verify_lookup(us, raw) ==
    LET uid == UserDAL_get_user_by_verification_token(us, hash_token(raw)) IN
    IF uid = NoUser
    THEN [code |-> 400, detail |-> "Invalid or expired verification token",
          uid |-> NoUser]
    ELSE [code |-> 200, detail |-> "found", uid |-> uid]

\* POST /auth/verify-email, lines 101-132, on the row the lookup read: r holds
\* its id and its is_email_verified and email_verification_expires as read.
verify_apply(us, t, r) ==
    IF r.is_email_verified
    THEN [code |-> 200, detail |-> "Email is already verified.", users |-> us]
    ELSE IF is_token_expired(r.email_verification_expires, t)
    THEN [code |-> 400,
          detail |-> "Verification token has expired. Please request a new one.",
          users |-> UserDAL_clear_email_verification_token(us, r.uid)]
    ELSE [code |-> 200,
          detail |-> "Email verified successfully! Your account is now fully activated.",
          users |-> UserDAL_verify_user_email(us, r.uid)]

\* POST /auth/verify-email served with no other request in between.
verify_email(us, t, raw) ==
    LET f == verify_lookup(us, raw) IN
    IF f.code # 200
    THEN [code |-> f.code, detail |-> f.detail, users |-> us]
    ELSE verify_apply(us, t, [op |-> "verify_email", uid |-> f.uid,
                              is_email_verified |-> us[f.uid].is_email_verified,
                              email_verification_expires |->
                                  us[f.uid].email_verification_expires])

\* Mails sent or that a request in flight is about to send.
PendingMail ==
    LET rs == {r \in BagToSet(req) : r.op = "resend"} IN
    Len(mail) + BagCardinality([r \in rs |-> CopiesIn(r, req)])

ResendCheck(e) ==
    LET c == resend_check(users, now, e) IN
    /\ c.uid # NoUser
    /\ BagCardinality(req) < MaxInflight
    /\ PendingMail < MaxResets
    /\ req' = req (+) SetToBag({[op |-> "resend", uid |-> c.uid,
                                 email |-> users[c.uid].email]})
    /\ UNCHANGED <<users, sessions, tokens, mail, now, redeemed>>

ResendWrite(r) ==
    LET w == resend_write(users, now, r, Len(mail) + 1) IN
    /\ r.op = "resend"
    /\ users' = w.users
    /\ mail' = mail \o w.sent
    /\ req' = req (-) SetToBag({r})
    /\ UNCHANGED <<sessions, tokens, now, redeemed>>

\* raw: a token some mail carried, or (0) one that was never issued.
VerifyLookup(raw) ==
    LET f == verify_lookup(users, raw) IN
    /\ f.code = 200
    /\ BagCardinality(req) < MaxInflight
    /\ req' = req (+) SetToBag({[op |-> "verify_email", uid |-> f.uid,
                is_email_verified |-> users[f.uid].is_email_verified,
                email_verification_expires |->
                    users[f.uid].email_verification_expires]})
    /\ UNCHANGED <<users, sessions, tokens, mail, now, redeemed>>

VerifyApply(r) ==
    /\ r.op = "verify_email"
    /\ users' = verify_apply(users, now, r).users
    /\ req' = req (-) SetToBag({r})
    /\ UNCHANGED <<sessions, tokens, mail, now, redeemed>>

(***************************************************************************)
(* The clock: datetime.utcnow() moves on, past every deadline set so far   *)
(* (the reset link's hour outlasts the access token's half hour).          *)
(***************************************************************************)
Tick ==
    /\ now + RESET_TOKEN_EXPIRE_MINUTES + 1 <= MaxTime
    /\ now' = now + RESET_TOKEN_EXPIRE_MINUTES + 1
    /\ UNCHANGED <<users, sessions, tokens, mail, req, redeemed>>

\* One minute passes: shorter than the life of an access token.
Minute ==
    /\ now < MaxMinutes
    /\ now' = now + 1
    /\ UNCHANGED <<users, sessions, tokens, mail, req, redeemed>>

\* More than the life of a verification token passes.
Day ==
    /\ now + VERIFICATION_EXPIRE_MINUTES + 1 <= MaxClock
    /\ now' = now + VERIFICATION_EXPIRE_MINUTES + 1
    /\ UNCHANGED <<users, sessions, tokens, mail, req, redeemed>>

Next ==
    \/ \E e \in Emails, p \in Passwords : RegisterCheck(e, p)
    \/ \E r \in BagToSet(req) : RegisterInsert(r)
    \/ \E e \in Emails, p \in Passwords : Login(e, p)
    \/ \E k \in 0..Len(tokens) : Me(k)
    \/ \E k \in 0..Len(tokens) : Logout(k)
    \/ \E e \in Emails, r \in Roles : UsersCreate(e, r)
    \/ \E id \in 1..MaxUsers, e \in Emails \cup {"NULL"}, r \in Roles \cup {"NULL"} :
            UsersUpdate(id, e, r)
    \/ \E k \in 0..Len(tokens), t \in 1..MaxUsers, r \in Reasons : BlockUser(k, t, r)
    \/ \E k \in 0..Len(tokens), t \in 1..MaxUsers : UnblockUser(k, t)
    \/ \E k \in 0..Len(tokens), t \in 1..MaxUsers, r \in Reasons : SuspendUser(k, t, r)
    \/ \E k \in 0..Len(tokens), t \in 1..MaxUsers, r \in Roles : ChangeUserRole(k, t, r)
    \/ \E k \in 0..Len(tokens), e \in Emails, p \in Passwords, r \in Roles :
            AdminCreateUser(k, e, p, r)
    \/ \E k \in 0..Len(tokens), t \in 1..MaxUsers : LogoutAllUserSessions(k, t)
    \/ \E e \in Emails : ForgotPassword(e)
    \/ \E raw \in 0..Len(mail), p \in Passwords : ResetLookup(raw, p)
    \/ \E r \in BagToSet(req) : ResetApply(r)
    \/ \E e \in Emails : ResendCheck(e)
    \/ \E r \in BagToSet(req) : ResendWrite(r)
    \/ \E raw \in 0..Len(mail) : VerifyLookup(raw)
    \/ \E r \in BagToSet(req) : VerifyApply(r)
    \/ Tick
    \/ Minute
    \/ Day

(***************************************************************************)
(* Next is every handler.  Its state space is the product of what the      *)
(* account, session and reset handlers each reach, so the properties are   *)
(* checked under its restrictions to the handlers that write the tables    *)
(* and columns a property reads, each with the handlers that create the    *)
(* accounts and tokens those need.                                         *)
(***************************************************************************)
Spec == Init /\ [][Next]_vars

\* Sessions and moderation: the session table, status, role, blocked_*.
NextAuth ==
    \/ \E e \in Emails, p \in Passwords : RegisterCheck(e, p)
    \/ \E r \in BagToSet(req) : RegisterInsert(r)
    \/ \E e \in Emails, p \in Passwords : Login(e, p)
    \/ \E k \in 0..Len(tokens) : Me(k)
    \/ \E k \in 0..Len(tokens) : Logout(k)
    \/ \E k \in 0..Len(tokens), t \in 1..MaxUsers, r \in Reasons : BlockUser(k, t, r)
    \/ \E k \in 0..Len(tokens), t \in 1..MaxUsers : UnblockUser(k, t)
    \/ \E k \in 0..Len(tokens), t \in 1..MaxUsers, r \in Reasons : SuspendUser(k, t, r)
    \/ \E k \in 0..Len(tokens), t \in 1..MaxUsers, r \in Roles : ChangeUserRole(k, t, r)
    \/ \E k \in 0..Len(tokens), t \in 1..MaxUsers : LogoutAllUserSessions(k, t)
    \/ Tick

SpecAuth == Init /\ [][NextAuth]_vars

\* Sessions: the handlers that open and close rows of user_sessions, with a
\* clock that advances within the life of a token.
NextSessions ==
    \/ \E e \in Emails, p \in Passwords : RegisterCheck(e, p)
    \/ \E r \in BagToSet(req) : RegisterInsert(r)
    \/ \E e \in Emails, p \in Passwords : Login(e, p)
    \/ \E k \in 0..Len(tokens) : Logout(k)
    \/ \E k \in 0..Len(tokens), t \in 1..MaxUsers : LogoutAllUserSessions(k, t)
    \/ Minute

SpecSessions == Init /\ [][NextSessions]_vars

\* Block against change-role: block_user as its two statements, with the
\* handler that writes the role between them.
NextBlockRole ==
    \/ \E e \in Emails, p \in Passwords : RegisterCheck(e, p)
    \/ \E r \in BagToSet(req) : RegisterInsert(r)
    \/ \E e \in Emails, p \in Passwords : Login(e, p)
    \/ \E k \in 0..Len(tokens), t \in 1..MaxUsers, r \in Reasons : BlockCheck(k, t, r)
    \/ \E r \in BagToSet(req) : BlockWrite(r)
    \/ \E k \in 0..Len(tokens), t \in 1..MaxUsers, r \in Roles : ChangeUserRole(k, t, r)

SpecBlockRole == Init /\ [][NextBlockRole]_vars

\* Recovery: the password-reset handlers with login, which opens sessions
\* and tests the password, and with block and suspend, which write the
\* status; one password to register with and one to reset to.
NextRecovery ==
    \/ \E e \in Emails : RegisterCheck(e, "MyPass456@")
    \/ \E r \in BagToSet(req) : RegisterInsert(r)
    \/ \E e \in Emails, p \in Passwords : Login(e, p)
    \/ \E e \in Emails : ForgotPassword(e)
    \/ \E raw \in 0..Len(mail) : ResetLookup(raw, "Admin789#")
    \/ \E r \in BagToSet(req) : ResetApply(r)
    \/ \E k \in 0..Len(tokens), t \in 1..MaxUsers : BlockUser(k, t, "NULL")
    \/ \E k \in 0..Len(tokens), t \in 1..MaxUsers : SuspendUser(k, t, "NULL")

SpecRecovery == Init /\ [][NextRecovery]_vars

\* Moderation: the handlers of NextAuth that write status, role and
\* blocked_*, with login and the clock.
NextModeration ==
    \/ \E e \in Emails, p \in Passwords : RegisterCheck(e, p)
    \/ \E r \in BagToSet(req) : RegisterInsert(r)
    \/ \E e \in Emails, p \in Passwords : Login(e, p)
    \/ \E k \in 0..Len(tokens), t \in 1..MaxUsers, r \in Reasons : BlockUser(k, t, r)
    \/ \E k \in 0..Len(tokens), t \in 1..MaxUsers : UnblockUser(k, t)
    \/ \E k \in 0..Len(tokens), t \in 1..MaxUsers, r \in Reasons : SuspendUser(k, t, r)
    \/ \E k \in 0..Len(tokens), t \in 1..MaxUsers, r \in Roles : ChangeUserRole(k, t, r)
    \/ Tick

SpecModeration == Init /\ [][NextModeration]_vars

\* Accounts: every handler that inserts a row or writes the email column
\* (PUT /users with the email alone).
NextAccounts ==
    \/ \E e \in Emails, p \in Passwords : RegisterCheck(e, p)
    \/ \E r \in BagToSet(req) : RegisterInsert(r)
    \/ \E e \in Emails, p \in Passwords : Login(e, p)
    \/ \E e \in Emails, r \in Roles : UsersCreate(e, r)
    \/ \E id \in 1..MaxUsers, e \in Emails : UsersUpdate(id, e, "NULL")
    \/ \E k \in 0..Len(tokens), e \in Emails, p \in Passwords, r \in Roles :
            AdminCreateUser(k, e, p, r)

SpecAccounts == Init /\ [][NextAccounts]_vars

\* Password reset: every handler that writes reset_token, reset_token_expires
\* or password.
NextReset ==
    \/ \E e \in Emails, p \in Passwords : RegisterCheck(e, p)
    \/ \E r \in BagToSet(req) : RegisterInsert(r)
    \/ \E e \in Emails : ForgotPassword(e)
    \/ \E raw \in 0..Len(mail), p \in Passwords : ResetLookup(raw, p)
    \/ \E r \in BagToSet(req) : ResetApply(r)
    \/ Tick

SpecReset == Init /\ [][NextReset]_vars

\* Tokens: the handlers of NextReset and NextVerify together, every handler
\* that writes a token hash or a token expiry, with one password to
\* register with and one to reset to.
NextTokens ==
    \/ \E e \in Emails : RegisterCheck(e, "MyPass456@")
    \/ \E r \in BagToSet(req) : RegisterInsert(r)
    \/ \E e \in Emails : ForgotPassword(e)
    \/ \E raw \in 0..Len(mail) : ResetLookup(raw, "Admin789#")
    \/ \E r \in BagToSet(req) : ResetApply(r)
    \/ \E e \in Emails : ResendCheck(e)
    \/ \E r \in BagToSet(req) : ResendWrite(r)
    \/ \E raw \in 0..Len(mail) : VerifyLookup(raw)
    \/ \E r \in BagToSet(req) : VerifyApply(r)
    \/ Tick
    \/ Day

SpecTokens == Init /\ [][NextTokens]_vars

\* Roles: every handler that inserts a row or writes the role column
\* (PUT /users with the role alone).
NextRoles ==
    \/ \E e \in Emails, p \in Passwords : RegisterCheck(e, p)
    \/ \E r \in BagToSet(req) : RegisterInsert(r)
    \/ \E e \in Emails, p \in Passwords : Login(e, p)
    \/ \E e \in Emails, r \in Roles : UsersCreate(e, r)
    \/ \E id \in 1..MaxUsers, r \in Roles : UsersUpdate(id, "NULL", r)
    \/ \E k \in 0..Len(tokens), t \in 1..MaxUsers, r \in Roles : ChangeUserRole(k, t, r)
    \/ \E k \in 0..Len(tokens), e \in Emails, p \in Passwords, r \in Roles :
            AdminCreateUser(k, e, p, r)

SpecRoles == Init /\ [][NextRoles]_vars

\* Email verification: every handler that writes is_email_verified,
\* email_verification_token, email_verification_expires or
\* verification_sent_at.
NextVerify ==
    \/ \E e \in Emails, p \in Passwords : RegisterCheck(e, p)
    \/ \E r \in BagToSet(req) : RegisterInsert(r)
    \/ \E e \in Emails : ResendCheck(e)
    \/ \E r \in BagToSet(req) : ResendWrite(r)
    \/ \E raw \in 0..Len(mail) : VerifyLookup(raw)
    \/ \E r \in BagToSet(req) : VerifyApply(r)
    \/ Tick

SpecVerify == Init /\ [][NextVerify]_vars

\* Password policy: a reset_password request has arrived with a new password
\* of up to MaxClassChars characters of each class and up to MaxFiller
\* characters of none ("~" and "-" are not in the punctuation set).
Repeat(c, n) == [i \in 1..n |-> c]

NewPasswords ==
    {Repeat("Q", u) \o Repeat("~", f) \o Repeat("z", l) \o Repeat("7", d)
        \o Repeat("-", g) \o Repeat("?", x) :
        u \in 0..MaxClassChars, l \in 0..MaxClassChars, d \in 0..MaxClassChars,
        x \in 0..MaxClassChars, f \in 0..MaxFiller, g \in 0..1}

InitPassword ==
    /\ users = <<NewUser("admin@x.com", "Admin789#", "admin", TRUE)>>
    /\ sessions = <<>>
    /\ tokens = <<>>
    /\ mail = <<>>
    /\ \E pw \in NewPasswords : req = SetToBag({[op |-> "arrived", new_password |-> pw]})
    /\ now = 0
    /\ redeemed = [r \in 1..MaxResets |-> 0]

NextPassword == \E r \in BagToSet(req) : ResetValidate(r)

SpecPassword == InitPassword /\ [][NextPassword]_vars

\* Password policy at the two endpoints that take a new password: the
\* password that arrived goes to register or to reset-password, with
\* forgot-password to issue the tokens.
NextPolicy ==
    \/ \E r \in BagToSet(req) : ResetValidate(r)
    \/ \E r \in BagToSet(req), raw \in 1..MaxResets : ResetRedeem(r, raw)
    \/ \E r \in BagToSet(req), e \in Emails : RegisterArrived(r, e)
    \/ \E e \in Emails : ForgotPassword(e)

SpecPolicy == InitPassword /\ [][NextPolicy]_vars

(***************************************************************************)
(* Properties.  The error kinds of the interface are read off the          *)
(* response: Unauthenticated is 401 and Forbidden 403 where the handler    *)
(* raises them; the refusals the handlers raise as 400 are told apart by   *)
(* their detail (Conflict "... already ...", NotFound "Invalid or expired  *)
(* reset token", the self and administrator guards "Cannot ...").          *)
(***************************************************************************)

\* C1: once logout has ended the session of a bearer token, get_current_user
\* rejects that token (401 or 403) in every later state, also while the token
\* has not expired and its account is active.
C1_EndedSessionTokenRejected ==
    \A k \in 1..Len(tokens) :
        (/\ \E i \in 1..Len(sessions) :
                /\ sessions[i].token_id = tokens[k].jti
                /\ ~sessions[i].is_active
                /\ sessions[i].logout_time # NULL
         /\ verify_token(tokens[k], now)
         /\ is_active(users[tokens[k].sub]))
        => get_current_user(users, tokens[k], now).code \in {401, 403}

\* C2: when an admin's logout-all for an account completes, the guard of the
\* protected routes rejects every token issued to that account before the call.
C2_LogoutAllRevokesTokens ==
    [][\A k \in 0..Len(tokens), target \in 1..MaxUsers :
          LogoutAllUserSessions(k, target)
          => \A j \in 1..Len(tokens) :
                tokens[j].sub = target
                => get_current_user(users', tokens'[j], now').code # 200]_vars

\* C3: of two register requests for one email that both passed the existence
\* check before either inserted, exactly one succeeds, whichever inserts first,
\* and exactly one account holds the email afterwards; no two accounts ever
\* hold the same email.
C3_ConcurrentRegisterOneSucceeds ==
    /\ \A i, j \in 1..Len(users) : users[i].email = users[j].email => i = j
    /\ \A r1, r2 \in BagToSet(req) :
          (/\ r1.op = "register" /\ r2.op = "register"
           /\ r1.email = r2.email
           /\ (r1 # r2 \/ CopiesIn(r1, req) >= 2)
           /\ \A i \in 1..Len(users) : users[i].email # r1.email)
          => LET first == register_insert(users, r1)
                 second == register_insert(first.users, r2)
             IN
             /\ first.code = 201
             /\ second.code # 201
             /\ second.users = first.users
             /\ Cardinality({i \in 1..Len(second.users) :
                                second.users[i].email = r1.email}) = 1

\* Two register requests for one email are both past the existence check and
\* no account holds the email yet.
C3_Witness ==
    \E r \in BagToSet(req) :
        /\ r.op = "register"
        /\ \E r2 \in BagToSet(req) :
              /\ r2.op = "register" /\ r2.email = r.email
              /\ (r2 # r \/ CopiesIn(r, req) >= 2)
        /\ \A i \in 1..Len(users) : users[i].email # r.email

\* C4: register, and the admin's create-user, answer Conflict and leave the
\* accounts as they are whenever some account's email equals the requested one
\* compared case-insensitively.
C4_CaseInsensitiveConflict ==
    \A e \in Emails :
        (\E i \in 1..Len(users) : Lower(users[i].email) = Lower(e))
        => /\ register_check(users, e).code = 400
           /\ \A k \in 1..Len(tokens), p \in Passwords, role \in Roles :
                 require_admin(users, tokens[k], now).code = 200
                 => LET r == admin_create_user(users, tokens[k], now, e, p, role) IN
                    r.code = 400 /\ r.users = users

\* C5: once a redemption of a raw reset token has succeeded, a reset_password
\* request that presents the same raw token afterwards answers NotFound and
\* leaves every account, so every password, as it was.
C5_RedeemedTokenNotFound ==
    \A raw \in 1..Len(mail), p \in Passwords :
        redeemed[raw] >= 1
        => LET r == reset_password(users, now, raw, p) IN
           /\ r.code = 400
           /\ r.detail = "Invalid or expired reset token"
           /\ r.users = users

\* A mailed token has been redeemed and its account's password is the new one.
C5_Witness ==
    \E raw \in 1..Len(mail) :
        /\ redeemed[raw] = 1
        /\ \E i \in 1..Len(users) :
              /\ users[i].email = mail[raw].to
              /\ users[i].reset_token = NoToken
              /\ \E p \in Passwords : verify_password(p, users[i].password)

\* C6: however reset_password requests that present one raw token interleave,
\* at most one of them answers success.
C6_AtMostOneRedemption ==
    \A raw \in 1..MaxResets : redeemed[raw] <= 1

\* C7: a login with the correct password for an account that an admin has
\* blocked or suspended answers 403 with the message that names the status.
C7_BlockedLoginForbidden ==
    \A i \in 1..Len(users), p \in Passwords :
        (is_blocked(users[i]) /\ verify_password(p, users[i].password))
        => LET r == login(users, sessions, tokens, now, users[i].email, p) IN
           r.code = 403 /\ r.detail = LoginAccountIsMsg(users[i].status)

\* C8: in every state that register, block, suspend, unblock, role changes and
\* logins lead to, a login that adds a session or a token adds exactly one of
\* each, for the account of the email given, and that account's status is
\* active in the state the credentials are checked in.
C8_LoginOnlyForActive ==
    \A e \in Emails, p \in Passwords :
        LET r == login(users, sessions, tokens, now, e, p) IN
        (r.sessions # sessions \/ r.tokens # tokens)
        => /\ Len(r.sessions) = Len(sessions) + 1
           /\ Len(r.tokens) = Len(tokens) + 1
           /\ LET uid == r.sessions[Len(r.sessions)].user_id IN
              /\ r.tokens[Len(r.tokens)].sub = uid
              /\ users[uid].email = Lower(e)
              /\ users[uid].status = "active"

\* An account that logged in earlier is blocked or suspended now, and a login
\* with its password is refused.
C8_Witness ==
    \E i \in 1..Len(users), p \in Passwords :
        /\ ~is_active(users[i])
        /\ verify_password(p, users[i].password)
        /\ \E s \in 1..Len(sessions) : sessions[s].user_id = i
        /\ login(users, sessions, tokens, now, users[i].email, p).code # 200

\* C9: a block request that passes the admin guard is refused with the guard's
\* message, and leaves every account (status and blocked_* included) as it
\* was, whenever the target is the acting admin or has role admin.
C9_BlockGuards ==
    \A k \in 1..Len(tokens), target \in 1..Len(users), reason \in Reasons :
        LET ra == require_admin(users, tokens[k], now)
            r == block_user(users, tokens[k], now, target, reason)
        IN
        (ra.code = 200 /\ (target = ra.uid \/ users[target].role = "admin"))
        => /\ r.code = 400
           /\ r.detail = IF target = ra.uid THEN "Cannot block yourself"
                         ELSE "Cannot block other administrators"
           /\ r.users = users

\* An admin holds a token the guard accepts and another active account has
\* role admin.
C9_Witness ==
    \E k \in 1..Len(tokens), target \in 1..Len(users) :
        LET ra == require_admin(users, tokens[k], now) IN
        /\ ra.code = 200
        /\ target # ra.uid
        /\ users[target].role = "admin"
        /\ is_active(users[target])

\* C10: a suspend request that passes the admin guard is refused, and leaves
\* every account as it was, whenever the target is the acting admin or has
\* role admin.
C10_SuspendGuards ==
    \A k \in 1..Len(tokens), target \in 1..Len(users), reason \in Reasons :
        LET ra == require_admin(users, tokens[k], now)
            r == suspend_user(users, tokens[k], now, target, reason)
        IN
        (ra.code = 200 /\ (target = ra.uid \/ users[target].role = "admin"))
        => r.code # 200 /\ r.users = users

\* C11: in every step in which an account's role becomes admin, or an account
\* with role admin is created, the step is a role change or a create-user
\* served to a caller whose token passed the admin guard.
C11_AdminRoleOnlyByAdmin ==
    [][\A i \in 1..Len(users') :
          (users'[i].role = "admin" /\ (i > Len(users) \/ users[i].role # "admin"))
          => \E k \in 1..Len(tokens) :
                /\ require_admin(users, tokens[k], now).code = 200
                /\ \/ \E t \in 1..MaxUsers, r \in Roles :
                          LET c == change_user_role(users, tokens[k], now, t, r) IN
                          c.code = 200 /\ users' = c.users
                   \/ \E e \in Emails, p \in Passwords, r \in Roles :
                          LET c == admin_create_user(users, tokens[k], now, e, p, r) IN
                          c.code = 200 /\ users' = c.users]_vars

\* What the caller of forgot-password sees: PasswordResetResponse and the
\* status code.
PasswordResetResponse(r) == [code |-> r.code, success |-> r.success, detail |-> r.detail]

\* The table without the account of an address: the address is unregistered.
Unregistered(us, email) == SelectSeq(us, LAMBDA u : u.email # email)

C13_AnyStatusSameAsUnknown ==
    \A e \in Emails, raw \in 1..MaxResets :
        UserDAL_get_user_by_email(users, Lower(e)) # NoUser
        => PasswordResetResponse(forgot_password(users, now, e, raw))
           = PasswordResetResponse(
                forgot_password(Unregistered(users, Lower(e)), now, e, raw))

\* What the caller of resend-verification sees: EmailVerificationResponse and
\* the status code.
EmailVerificationResponse(r) ==
    [code |-> r.code, success |-> r.success, detail |-> r.detail,
     is_verified |-> r.is_verified]

\* C14: resend-verification answers for the address of an account exactly
\* what it answers for the same address when no account has it, whether the
\* account is verified, unverified or inside the resend cooldown.
C14_ResendSameAsUnknown ==
    \A e \in Emails, raw \in 1..MaxResets :
        UserDAL_get_user_by_email(users, Lower(e)) # NoUser
        => EmailVerificationResponse(resend_verification(users, now, e, raw))
           = EmailVerificationResponse(
                resend_verification(Unregistered(users, Lower(e)), now, e, raw))

\* C15: a token that login issued (exp = issue time + ttl) verifies at every
\* time before its exp and is answered invalid at every time after it,
\* whatever else the state is; so does a token issued now.
C15_TokenValidUntilExpiry ==
    LET Times == 0..(MaxTime + ACCESS_TOKEN_EXPIRE_MINUTES + 1)
        Issued == {tokens[k] : k \in 1..Len(tokens)}
                  \cup {create_access_token(1, "admin", Len(sessions) + 1, now)}
    IN
    /\ create_access_token(1, "admin", Len(sessions) + 1, now).exp
          = now + ACCESS_TOKEN_EXPIRE_MINUTES
    /\ \A tok \in Issued, t \in Times :
          /\ t < tok.exp => verify_token(tok, t)
          /\ t > tok.exp => ~verify_token(tok, t)
    /\ \A k \in 1..Len(tokens) :
          now > tokens[k].exp => get_current_user(users, tokens[k], now).code = 401

\* A token was issued, its exp has passed and nothing but the clock changed
\* for its account: the account is active.
C15_Witness ==
    \E k \in 1..Len(tokens) :
        /\ now > tokens[k].exp
        /\ is_active(users[tokens[k].sub])
        /\ ~verify_token(tokens[k], now)

\* C16: the strength check accepts a password exactly when it has at least 8
\* characters and at least one uppercase letter, one lowercase letter, one
\* digit and one symbol of the punctuation set; a password that lacks one
\* class, or is shorter than 8, is refused.
C16_StrengthIffAllClasses ==
    \A r \in BagToSet(req) :
        r.op = "validated"
        => LET pw == r.new_password
               Has(class) == {i \in 1..Len(pw) : pw[i] \in class} # {}
           IN
           (r.code = 200)
           <=> (/\ Len(pw) >= 8
                /\ Has(UpperCase) /\ Has(LowerCase) /\ Has(Digits)
                /\ Has(SpecialChars))

\* A password of exactly 8 characters with all four classes was accepted.
C16_Witness ==
    \E r \in BagToSet(req) :
        /\ r.op = "validated"
        /\ r.code = 200
        /\ Len(r.new_password) = 8

\* C17: an unblock request by an active admin for a blocked or suspended
\* account succeeds whatever the account's role; it leaves the account active
\* with blocked_at, blocked_by and blocked_reason cleared, and changes nothing
\* else.
C17_UnblockClears ==
    \A k \in 1..Len(tokens), target \in 1..Len(users) :
        (require_admin(users, tokens[k], now).code = 200 /\ is_blocked(users[target]))
        => LET r == unblock_user(users, tokens[k], now, target) IN
           /\ r.code = 200
           /\ r.users = [users EXCEPT ![target] =
                            [@ EXCEPT !.status = "active", !.blocked_at = NULL,
                                      !.blocked_by = NoUser,
                                      !.blocked_reason = "NULL"]]
           /\ is_active(r.users[target])

\* An active admin holds a valid token while an account of role admin is
\* blocked or suspended, with the record of who did it and when.
C17_Witness ==
    \E k \in 1..Len(tokens), target \in 1..Len(users) :
        /\ require_admin(users, tokens[k], now).code = 200
        /\ is_blocked(users[target])
        /\ users[target].role = "admin"
        /\ users[target].blocked_by # NoUser
        /\ users[target].blocked_at # NULL

\* C18: in every step that changes an account's status, the change is one of
\* active to blocked, active to suspended, blocked to active, suspended to
\* active; never blocked to suspended or suspended to blocked.
C18_StatusTransitions ==
    [][\A i \in 1..Len(users) :
          users'[i].status # users[i].status
          => <<users[i].status, users'[i].status>>
                \in {<<"active", "blocked">>, <<"active", "suspended">>,
                     <<"blocked", "active">>, <<"suspended", "active">>}]_vars

\* C19: whatever token a block, suspend or unblock request presents and
\* whatever its target, the status of the account the token belongs to is the
\* same after the request as before it.
C19_ActorStatusUnchanged ==
    \A k \in 1..Len(tokens), target \in 1..MaxUsers, reason \in Reasons :
        LET actor == tokens[k].sub
            same(r) == r.users[actor].status = users[actor].status
        IN
        /\ same(block_user(users, tokens[k], now, target, reason))
        /\ same(suspend_user(users, tokens[k], now, target, reason))
        /\ same(unblock_user(users, tokens[k], now, target))

\* An admin who has blocked or suspended another account asks to unblock
\* itself, and the request is served.
C19_Witness ==
    \E k \in 1..Len(tokens), i \in 1..Len(users) :
        /\ is_blocked(users[i])
        /\ users[i].blocked_by = tokens[k].sub
        /\ unblock_user(users, tokens[k], now, tokens[k].sub).code = 200

\* C20: an admin request is served only to a token that verifies and whose
\* account has, in the table as the guard reads it, role admin and status
\* active; a token that carries the role claim admin for an account whose
\* stored role is no longer admin is refused with 403 by the guard and by
\* every admin handler, which then change nothing.
C20_AdminGuardReadsStoredRole ==
    \A k \in 0..Len(tokens) :
        LET tok == Presented(tokens, k)
            StoredAdmin == /\ verify_token(tok, now)
                           /\ UserDAL_get_user(users, tok.sub) # NoUser
                           /\ users[tok.sub].role = "admin"
                           /\ users[tok.sub].status = "active"
            Served == {require_admin(users, tok, now).code}
                \cup {block_user(users, tok, now, t, r).code :
                            t \in 1..MaxUsers, r \in Reasons}
                \cup {suspend_user(users, tok, now, t, r).code :
                            t \in 1..MaxUsers, r \in Reasons}
                \cup {unblock_user(users, tok, now, t).code : t \in 1..MaxUsers}
                \cup {change_user_role(users, tok, now, t, r).code :
                            t \in 1..MaxUsers, r \in Roles}
                \cup {admin_create_user(users, tok, now, e, p, r).code :
                            e \in Emails, p \in Passwords, r \in Roles}
                \cup {logout_all_user_sessions(users, sessions, tok, now, t).code :
                            t \in 1..MaxUsers}
            Left == {block_user(users, tok, now, t, r).users :
                            t \in 1..MaxUsers, r \in Reasons}
                \cup {suspend_user(users, tok, now, t, r).users :
                            t \in 1..MaxUsers, r \in Reasons}
                \cup {unblock_user(users, tok, now, t).users : t \in 1..MaxUsers}
                \cup {change_user_role(users, tok, now, t, r).users :
                            t \in 1..MaxUsers, r \in Roles}
                \cup {admin_create_user(users, tok, now, e, p, r).users :
                            e \in Emails, p \in Passwords, r \in Roles}
        IN
        /\ 200 \in Served => StoredAdmin
        /\ (k > 0 /\ verify_token(tok, now) /\ tok.role = "admin"
                  /\ users[tok.sub].role # "admin" /\ is_active(users[tok.sub]))
           => /\ Served = {403}
              /\ Left = {users}
              /\ \A t \in 1..MaxUsers :
                    logout_all_user_sessions(users, sessions, tok, now, t).sessions
                        = sessions

\* An active account holds an unexpired token with the role claim admin and
\* its stored role is user: an admin that was demoted after it logged in.
C20_Witness ==
    \E k \in 1..Len(tokens) :
        /\ verify_token(tokens[k], now)
        /\ tokens[k].role = "admin"
        /\ users[tokens[k].sub].role = "user"
        /\ is_active(users[tokens[k].sub])
        /\ get_current_user(users, tokens[k], now).code = 200

\* C21: while an account is blocked or suspended, get_current_user answers
\* 403 with the message that names the status for every unexpired token of
\* the account, and so do logout and the admin guard; once the account is
\* active again (unblocked) the same unexpired tokens are accepted.
C21_BlockedTokensForbidden ==
    \A k \in 1..Len(tokens) :
        LET tok == tokens[k]
            cu == get_current_user(users, tok, now)
        IN
        verify_token(tok, now)
        => /\ is_blocked(users[tok.sub])
              => /\ cu.code = 403
                 /\ cu.detail = AccountIsMsg(users[tok.sub].status)
                 /\ logout(users, sessions, tok, now).code = 403
                 /\ require_admin(users, tok, now).code = 403
           /\ is_active(users[tok.sub]) => cu.code = 200 /\ cu.uid = tok.sub

\* An account that holds an unexpired token is blocked or suspended.
C21_Witness ==
    \E k \in 1..Len(tokens) :
        /\ verify_token(tokens[k], now)
        /\ is_blocked(users[tokens[k].sub])
        /\ users[tokens[k].sub].blocked_by # NoUser

\* C22: in every state a session row has is_active = FALSE exactly when its
\* logout_time is set, and no step turns a closed session (is_active FALSE)
\* back into an active one.
C22_ClosedIffLogoutTime ==
    /\ [](\A i \in 1..Len(sessions) :
            sessions[i].is_active <=> sessions[i].logout_time = NULL)
    /\ [][\A i \in 1..Len(sessions) :
            ~sessions[i].is_active
            => /\ i <= Len(sessions')
               /\ ~sessions'[i].is_active
               /\ sessions'[i].logout_time # NULL]_vars

\* One session has been closed and another is still open.
C22_Witness ==
    \E i, j \in 1..Len(sessions) :
        /\ ~sessions[i].is_active
        /\ sessions[i].logout_time # NULL
        /\ sessions[j].is_active

\* C23: a login that succeeds adds exactly one row to the session table and
\* one token; the row is active, belongs to the account that logged in and
\* its token_id is the jti of the token handed out; the rows already there
\* are untouched (an account may hold several active sessions), and no two
\* rows share a token_id.
C23_LoginOpensOneSession ==
    /\ \A i, j \in 1..Len(sessions) :
            sessions[i].token_id = sessions[j].token_id => i = j
    /\ \A e \in Emails, p \in Passwords :
        LET r == login(users, sessions, tokens, now, e, p)
            n == Len(sessions) + 1
        IN
        r.code = 200
        => /\ Len(r.sessions) = n
           /\ Len(r.tokens) = Len(tokens) + 1
           /\ \A i \in 1..Len(sessions) : r.sessions[i] = sessions[i]
           /\ r.sessions[n].is_active
           /\ r.sessions[n].logout_time = NULL
           /\ r.sessions[n].token_id = r.tokens[Len(r.tokens)].jti
           /\ r.sessions[n].user_id = r.tokens[Len(r.tokens)].sub
           /\ r.sessions[n].user_id = UserDAL_get_user_by_email(users, Lower(e))
           /\ \A i \in 1..Len(sessions) :
                  sessions[i].token_id # r.sessions[n].token_id

\* One account holds two active sessions, each with the jti of its token.
C23_Witness ==
    \E i, j \in 1..Len(sessions) :
        /\ i # j
        /\ sessions[i].user_id = sessions[j].user_id
        /\ sessions[i].is_active /\ sessions[j].is_active
        /\ \E k \in 1..Len(tokens) : tokens[k].jti = sessions[j].token_id

\* C24: closing is idempotent: no step changes any field of a session row
\* that is already closed (its logout_time stays what it was), and a close
\* of a token_id that has no row changes nothing.
C24_CloseIdempotent ==
    /\ [](\A jti \in 0..(MaxSessions + 1) :
            (\A i \in 1..Len(sessions) : sessions[i].token_id # jti)
            => UserDAL_end_session(sessions, jti, now) = sessions)
    /\ [][\A i \in 1..Len(sessions) :
            ~sessions[i].is_active => sessions'[i] = sessions[i]]_vars

\* C25: a logout-all that succeeds leaves the account with no active
\* session; the count it returns is the number of rows it changed, which
\* is the number of sessions the account had active; every row of another
\* account, and every row that was already closed, is left as it was.
C25_LogoutAllClosesAccountSessions ==
    \A k \in 0..Len(tokens), target \in 1..MaxUsers :
        LET r == logout_all_user_sessions(users, sessions, Presented(tokens, k),
                                          now, target)
            changed == {i \in 1..Len(sessions) : r.sessions[i] # sessions[i]}
        IN
        r.code = 200
        => /\ Len(r.sessions) = Len(sessions)
           /\ \A i \in 1..Len(sessions) :
                  r.sessions[i].user_id = target => ~r.sessions[i].is_active
           /\ r.sessions_ended = Cardinality(changed)
           /\ changed = {i \in 1..Len(sessions) :
                            sessions[i].user_id = target /\ sessions[i].is_active}
           /\ \A i \in changed :
                  r.sessions[i] = [sessions[i] EXCEPT !.is_active = FALSE,
                                                      !.logout_time = now]

\* An admin can close the active session of one account while another
\* account has an active session too.
C25_Witness ==
    \E k \in 1..Len(tokens), target \in 1..MaxUsers :
        LET r == logout_all_user_sessions(users, sessions, tokens[k], now, target)
        IN
        /\ r.code = 200
        /\ r.sessions_ended >= 1
        /\ \E i \in 1..Len(sessions) :
               sessions[i].is_active /\ sessions[i].user_id # target

\* The three columns that record a block.
BlockRecord(u) == <<u.blocked_at, u.blocked_by, u.blocked_reason>>

\* C26: in every state an account has blocked_at and blocked_by set exactly
\* when its status is blocked or suspended, and blocked_reason is set only
\* then; update_user leaves the three columns and the status as they are;
\* and a step that changes one of the three columns of an account is a
\* block, an unblock or a suspend.
C26_BlockRecordFollowsStatus ==
    /\ [](\A u \in 1..Len(users) :
            /\ is_blocked(users[u])
               => users[u].blocked_at # NULL /\ users[u].blocked_by # NoUser
            /\ ~is_blocked(users[u])
               => BlockRecord(users[u]) = <<NULL, NoUser, "NULL">>)
    /\ [](\A id \in 1..MaxUsers, e \in Emails \cup {"NULL"}, r \in Roles \cup {"NULL"} :
            LET us == update_user(users, id, e, r).users IN
            \A u \in 1..Len(users) :
                /\ BlockRecord(us[u]) = BlockRecord(users[u])
                /\ us[u].status = users[u].status)
    /\ [][(\E u \in 1..Len(users) : BlockRecord(users'[u]) # BlockRecord(users[u]))
           => \E k \in 1..Len(tokens), t \in 1..MaxUsers :
                \/ \E r \in Reasons : BlockUser(k, t, r) \/ SuspendUser(k, t, r)
                \/ UnblockUser(k, t)]_vars

\* An account is suspended with no reason given and carries the time of
\* the suspension and the admin who did it.
C26_Witness ==
    \E u \in 1..Len(users) :
        /\ users[u].status = "suspended"
        /\ users[u].blocked_reason = "NULL"
        /\ users[u].blocked_at # NULL /\ users[u].blocked_by # NoUser

\* C27: in every state each account has its reset token hash and its reset
\* expiry both absent or both set, and its verification token hash and its
\* verification expiry both absent or both set.
C27_TokenFieldsPaired ==
    \A u \in 1..Len(users) :
        /\ users[u].reset_token = NoToken <=> users[u].reset_token_expires = NULL
        /\ users[u].email_verification_token = NoToken
           <=> users[u].email_verification_expires = NULL

\* An account holds a reset token and a verification token at once, each
\* with its expiry, and a reset token of some account has been cleared
\* after a link for it was sent.
C27_Witness ==
    /\ \E u \in 1..Len(users) :
        /\ users[u].reset_token # NoToken
        /\ users[u].reset_token_expires # NULL
        /\ users[u].email_verification_token # NoToken
        /\ users[u].email_verification_expires # NULL
    /\ \E m \in 1..Len(mail) :
        /\ mail[m].kind = "reset"
        /\ \A u \in 1..Len(users) : users[u].reset_token # hash_token(mail[m].token)

\* C28: when two reset links have been sent to one address, a
\* reset-password request that presents the token of the earlier one is
\* refused with "Invalid or expired reset token" and changes nothing,
\* whatever the new password; and the row matches at most one of the
\* tokens sent.
C28_NewResetTokenReplacesOld ==
    /\ \A m, n \in 1..Len(mail) :
        (m < n /\ mail[m].kind = "reset" /\ mail[n].kind = "reset"
               /\ mail[m].to = mail[n].to)
        => \A p \in Passwords :
              LET r == reset_password(users, now, mail[m].token, p) IN
              /\ r.code = 400
              /\ r.detail = "Invalid or expired reset token"
              /\ r.users = users
    /\ \A u \in 1..Len(users) :
          Cardinality({m \in 1..Len(mail) :
              mail[m].kind = "reset"
              /\ users[u].reset_token = hash_token(mail[m].token)}) <= 1

\* Two links went to one address and the later one can be redeemed now.
C28_Witness ==
    \E m, n \in 1..Len(mail) :
        /\ m < n
        /\ mail[m].kind = "reset" /\ mail[n].kind = "reset"
        /\ mail[m].to = mail[n].to
        /\ reset_password(users, now, mail[n].token, "Admin789#").code = 200

C30_VerifyConsumesToken ==
    /\ [](\A m \in 1..Len(mail), u \in 1..Len(users) :
            ( /\ users[u].email_verification_token = hash_token(mail[m].token)
              /\ ~users[u].is_email_verified
              /\ ~is_token_expired(users[u].email_verification_expires, now) )
            => LET v == verify_email(users, now, mail[m].token)
                   w == verify_email(v.users, now, mail[m].token)
               IN
               /\ v.code = 200
               /\ v.users = [users EXCEPT ![u].is_email_verified = TRUE,
                                           ![u].email_verification_token = NoToken,
                                           ![u].email_verification_expires = NULL]
               /\ w.code = 400
               /\ w.detail = "Invalid or expired verification token"
               /\ w.users = v.users)
    /\ [][\A u \in 1..Len(users) :
            (~users[u].is_email_verified /\ users'[u].is_email_verified)
            => /\ users'[u].email_verification_token = NoToken
               /\ users'[u].email_verification_expires = NULL]_vars

\* An account has been verified with a token that was mailed to it, and
\* holds no token any more.
C30_Witness ==
    \E m \in 1..Len(mail), u \in 1..Len(users) :
        /\ mail[m].kind = "verify"
        /\ mail[m].to = users[u].email
        /\ users[u].is_email_verified
        /\ users[u].email_verification_token = NoToken
        /\ verify_email(users, now, mail[m].token).code = 400

\* C31: a step that issues a verification token to an account (a
\* verification mail goes out and the row's token is replaced) happens only
\* when the account has not been sent one before or its last one is more
\* than RESEND_COOLDOWN_MINUTES old; and a resend-verification inside the
\* cooldown answers 429 and changes nothing.
C31_ResendCooldown ==
    /\ [](\A e \in Emails :
            LET uid == UserDAL_get_user_by_email(users, Lower(e))
                r == resend_verification(users, now, e, Len(mail) + 1)
            IN
            ( /\ uid # NoUser
              /\ ~users[uid].is_email_verified
              /\ users[uid].verification_sent_at # NULL
              /\ now - users[uid].verification_sent_at <= RESEND_COOLDOWN_MINUTES )
            => r.code = 429 /\ r.users = users /\ r.sent = <<>>)
    /\ [][\A u \in 1..Len(users) :
            ( /\ Len(mail') = Len(mail) + 1
              /\ mail'[Len(mail')].kind = "verify"
              /\ users'[u].email_verification_token
                    = hash_token(mail'[Len(mail')].token) )
            => \/ users[u].verification_sent_at = NULL
               \/ now - users[u].verification_sent_at > RESEND_COOLDOWN_MINUTES]_vars

\* C32: in every state no two accounts have emails that are equal when
\* compared case-insensitively.
C32_EmailsUniqueIgnoringCase ==
    \A i, j \in 1..Len(users) :
        Lower(users[i].email) = Lower(users[j].email) => i = j

\* C33: a password that fails the strength check is refused by register
\* (422, the validator's message) and by reset-password (400, the same
\* message) whatever the email and whatever the token, also a token that
\* could be redeemed; neither changes any account, so the stored password
\* and the reset token stay.
C33_PolicyOnRegisterAndReset ==
    \A r \in BagToSet(req) :
        LET pw == r.new_password
            c == validate_password_strength(pw)
        IN
        ~c.ok
        => /\ \A e \in Emails :
                LET g == register(users, e, pw) IN
                g.code = 422 /\ g.detail = c.message /\ g.users = users
           /\ \A raw \in 0..Len(mail) :
                LET a == reset_password_checked(users, now, raw, pw) IN
                a.code = 400 /\ a.detail = c.message /\ a.users = users

\* A reset-password request was refused for its password while a token
\* that a strong password would redeem is outstanding.
C33_Witness ==
    \E r \in BagToSet(req), raw \in 1..Len(mail) :
        /\ r.op = "validated"
        /\ r.code = 400
        /\ reset_password_checked(users, now, raw, <<"A", "d", "m", "i", "n", "7", "8", "9", "#">>).code = 200

\* C34: a login that is refused, for an unknown email, a wrong password or
\* an account that is not active, leaves the accounts, the sessions and the
\* tokens exactly as they were; a login that succeeds changes, in the
\* accounts, last_login of the account that logged in and nothing else.
C34_FailedLoginChangesNothing ==
    \A e \in Emails, p \in Passwords :
        LET r == login(users, sessions, tokens, now, e, p)
            uid == UserDAL_get_user_by_email(users, Lower(e))
        IN
        /\ r.code # 200
           => r.users = users /\ r.sessions = sessions /\ r.tokens = tokens
        /\ r.code = 200
           => r.users = [users EXCEPT ![uid].last_login = now]
        /\ ( \/ uid = NoUser
             \/ ~is_active(users[uid])
             \/ ~verify_password(p, users[uid].password) )
           => r.code # 200

\* An account that logged in earlier is now blocked or suspended, so that a
\* login with its own password is refused, as is one with another password.
C34_Witness ==
    \E u \in 1..Len(users), p, q \in Passwords :
        /\ is_blocked(users[u])
        /\ users[u].last_login # NULL
        /\ verify_password(p, users[u].password)
        /\ login(users, sessions, tokens, now, users[u].email, p).code # 200
        /\ ~verify_password(q, users[u].password)

\* C35: in every state an account whose is_email_verified is TRUE has no
\* verification token and no verification expiry.
C35_VerifiedHasNoToken ==
    \A u \in 1..Len(users) :
        users[u].is_email_verified
        => /\ users[u].email_verification_token = NoToken
           /\ users[u].email_verification_expires = NULL

\* C36: no step moves an account into status blocked while the role stored
\* for it is admin.
C36_BlockNeverHitsAdmin ==
    [][\A u \in 1..Len(users) :
        (users[u].status # "blocked" /\ users'[u].status = "blocked")
        => users[u].role # "admin"]_vars

C38_ResetOnlyForActive ==
    [][\A u \in 1..Len(users) :
        users'[u].password # users[u].password => users[u].status = "active"]_vars

====
